---- MODULE Spec2Model ----
(***************************************************************************)
(* Model of the SEO semantic auditor: the Streamlit page (src/app.py) and  *)
(* the command-line relevance checker (src/relevance_scorer.py).           *)
(*                                                                         *)
(* Text is a sequence of one-character strings.  Scores are cosine         *)
(* similarities in ten-thousandths (6000 is 0.60).  The sentence model and *)
(* the keyphrase model are external; they are represented by deterministic *)
(* stand-ins that depend on the loaded model and on the text only.         *)
(***************************************************************************)
EXTENDS Integers, Sequences, FiniteSets, TLC

VARIABLES my_text, competitor_text, model, page, cli

vars == <<my_text, competitor_text, model, page, cli>>

----------------------------------------------------------------------------
(* Bounds of the model *)

\* most text elements in one fetched HTML page
MaxElems == 1
\* user content is padded up to MinContentLen + MaxPad characters
MaxPad == 1
\* most lines pasted in one iteration of the command-line loop
MaxLines == 2

----------------------------------------------------------------------------
(* Program constants *)

\* app.py:114  len(my_content_final.strip()) < 50
MinContentLen == 50
\* app.py:42   len(elem.get_text().strip()) > 25
MinElemLen == 25
\* app.py:146  extract_keywords(..., top_n=25)
TopNGap == 25
\* app.py:132 / relevance_scorer.py:37   score > 0.60
StrongAbove == 6000
\* app.py:134 / relevance_scorer.py:39   score > 0.40
ModerateAbove == 4000
\* app.py:131  st.progress takes a float in [0.0, 1.0]
ProgressMax == 10000

----------------------------------------------------------------------------
(* Python string operations *)

Min(a, b) == IF a < b THEN a ELSE b

\* str.lower(), one character
LowerChar(c) == IF c = "A" THEN "a" ELSE IF c = "B" THEN "b" ELSE c

\* str.lower()
lower(s) == [i \in 1..Len(s) |-> LowerChar(s[i])]

\* the characters str.strip() removes
IsSpace(c) == c \in {" ", "\n"}

RECURSIVE lstrip(_)
lstrip(s) == IF s # <<>> /\ IsSpace(Head(s)) THEN lstrip(Tail(s)) ELSE s

RECURSIVE rstrip(_)
rstrip(s) ==
    IF s # <<>> /\ IsSpace(s[Len(s)]) THEN rstrip(SubSeq(s, 1, Len(s) - 1)) ELSE s

\* str.strip()
strip(s) == rstrip(lstrip(s))

\* the substring test  `sub in s`
In(sub, s) ==
    \E i \in 0..(Len(s) - Len(sub)) : \A j \in 1..Len(sub) : s[i + j] = sub[j]

\* sep.join(parts)
RECURSIVE join(_, _)
join(sep, parts) ==
    IF parts = <<>> THEN <<>>
    ELSE IF Len(parts) = 1 THEN parts[1]
    ELSE parts[1] \o sep \o join(sep, Tail(parts))

\* n copies of the character c
Repeat(c, n) == [i \in 1..n |-> c]

\* core followed by a blank and a filler word, n characters in all
Pad(core, n) ==
    IF Len(core) + 1 >= n THEN core
    ELSE core \o <<" ">> \o Repeat("x", n - Len(core) - 1)

\* all sequences over S of length lo..hi
SeqsOf(S, lo, hi) == UNION {[1..n -> S] : n \in lo..hi}

----------------------------------------------------------------------------
(* The external models *)

\* the similarities the sentence model can report, in ten-thousandths
ScoreValues == <<-1, 0, 4000, 4001, 6000, 6001, 10000>>

\* the model versions load_models() can have loaded
Models == 0..(Len(ScoreValues) - 1)

\* model.encode(text): an opaque vector, a function of the text only
encode(text) == Len(text)

\* model.similarity(a, b)[0][0]: deterministic for a loaded model
similarity(m, emb_a, emb_b) ==
    ScoreValues[((m + emb_a + emb_b) % Len(ScoreValues)) + 1]

\* text the keyphrase model cannot process: the call raises
Malformed(text) == \E i \in 1..Len(text) : text[i] = "#"

\* characters that separate tokens
IsSeparator(c) == IsSpace(c) \/ c = "-"

RECURSIVE SplitWords(_, _)
SplitWords(s, cur) ==
    IF s = <<>> THEN (IF cur = <<>> THEN <<>> ELSE <<cur>>)
    ELSE IF IsSeparator(Head(s))
         THEN (IF cur = <<>> THEN SplitWords(Tail(s), <<>>)
               ELSE <<cur>> \o SplitWords(Tail(s), <<>>))
         ELSE SplitWords(Tail(s), Append(cur, Head(s)))

\* the tokens of a text
Words(text) == SplitWords(text, <<>>)

\* candidate phrases of one or two words (keyphrase_ngram_range=(1, 2))
Ngrams(ws) ==
    ws \o [i \in 1..(Len(ws) - 1) |-> ws[i] \o <<" ">> \o ws[i + 1]]

\* the order the loaded model ranks the candidates in
Rotate(s, k) ==
    IF s = <<>> THEN s
    ELSE LET r == k % Len(s)
         IN  SubSeq(s, r + 1, Len(s)) \o SubSeq(s, 1, r)

\* kw_model.extract_keywords(text, keyphrase_ngram_range=(1, 2), top_n=top_n):
\* (phrase, weight) pairs, weight descending, at most top_n; or the call raises
KeyBERT(m, text, top_n) ==
    IF Malformed(text) THEN [ok |-> FALSE, kws |-> <<>>]
    ELSE LET ranked == Rotate(Ngrams(Words(text)), m)
             n == Min(top_n, Len(ranked))
         IN  [ok |-> TRUE,
              kws |-> [i \in 1..n |-> <<ranked[i], Len(ranked) - i>>]]

----------------------------------------------------------------------------
(* Helper functions of app.py *)

\* fetch_url_content: the text of the kept elements, or None on any exception
fetch_url_content(response) ==
    IF response.status # "ok" THEN [none |-> TRUE, text |-> <<>>]
    ELSE LET stripped == [i \in 1..Len(response.elems) |-> strip(response.elems[i])]
             kept == SelectSeq(stripped, LAMBDA e : Len(e) > MinElemLen)
         IN  [none |-> FALSE, text |-> join(<<" ">>, kept)]

\* `if text:` on the value fetch_url_content returned
Truthy(fetched) == ~fetched.none /\ fetched.text # <<>>

\* extract_keywords with the extractor's exception caught and turned into []
ExtractKeywordsSwallowing(m, text, top_n) ==
    IF text = <<>> \/ ~KeyBERT(m, text, top_n).ok THEN [ok |-> TRUE, kws |-> <<>>]
    ELSE KeyBERT(m, text, top_n)

\* extract_keywords(text, top_n)
extract_keywords(m, text, top_n) ==
    IF text = <<>> THEN [ok |-> TRUE, kws |-> <<>>]
    ELSE KeyBERT(m, text, top_n)

\* [kw[0] for kw in ...]
Phrases(kws) == [i \in 1..Len(kws) |-> kws[i][1]]

\* the validation with the length taken of the unstripped content
ValidateUnstripped(topic, content) ==
    IF topic = <<>> THEN "invalid_keyword"
    ELSE IF content = <<>> \/ Len(content) < MinContentLen
         THEN "invalid_content"
         ELSE "valid"

\* the validation of the analyze handler: which warning, if any
Validate(topic, content) ==
    IF topic = <<>> THEN "invalid_keyword"
    ELSE IF content = <<>> \/ Len(strip(content)) < MinContentLen
         THEN "invalid_content"
         ELSE "valid"

\* st.progress(score) accepts the value
ProgressAccepts(score) == 0 <= score /\ score <= ProgressMax

\* the message shown next to the score
Band(score) ==
    IF score > StrongAbove THEN "Strong"
    ELSE IF score > ModerateAbove THEN "Moderate"
    ELSE "Low"

\* missing_kws with the keyphrase compared as it is spelled
MissingCaseSensitive(comp_kws, content) ==
    SelectSeq(comp_kws, LAMBDA kw : ~In(kw, content))

\* missing_kws = [kw for kw in comp_kws if kw.lower() not in my_content_final.lower()]
Missing(comp_kws, content) ==
    LET mine == lower(content)
    IN  SelectSeq(comp_kws, LAMBDA kw : ~In(lower(kw), mine))

\* shared with the keyphrase compared as it is spelled
SharedCaseSensitive(comp_kws, content) ==
    SelectSeq(comp_kws, LAMBDA kw : In(kw, content))

\* shared = [kw for kw in comp_kws if kw.lower() in my_content_final.lower()]
Shared(comp_kws, content) ==
    LET mine == lower(content)
    IN  SelectSeq(comp_kws, LAMBDA kw : In(lower(kw), mine))

----------------------------------------------------------------------------
(* One run of the page script, as the record of what it did and rendered *)

NoGap == [present |-> FALSE, comp_kws |-> <<>>, missing_kws |-> <<>>, shared |-> <<>>]

\* a run whose analyze button was not pressed
Rendered(run, notice) ==
    [run |-> run, topic |-> <<>>, content |-> <<>>, comp |-> <<>>,
     outcome |-> "rendered", notice |-> notice, calls |-> <<>>,
     scored |-> FALSE, score |-> 0, band |-> "none", gap |-> NoGap]

\* the invocation of the keyphrase model that extract_keywords(text) makes;
\* arg names the expression the text was read from
ExtractorCalls(arg, text) ==
    IF text = <<>> THEN <<>> ELSE << <<"extract_keywords", arg>> >>

\* section 3 without the extraction of the user document's keyphrases
GapAnalysisCompetitorOnly(m, comp, content) ==
    LET r_comp == extract_keywords(m, comp, TopNGap)
        comp_kws == Phrases(r_comp.kws)
    IN  IF ~r_comp.ok
        THEN [raised |-> TRUE, calls |-> ExtractorCalls("competitor_text", comp),
              gap |-> NoGap]
        ELSE [raised |-> FALSE, calls |-> ExtractorCalls("competitor_text", comp),
              gap |-> [present |-> TRUE, comp_kws |-> comp_kws,
                       missing_kws |-> Missing(comp_kws, content),
                       shared |-> Shared(comp_kws, content)]]

\* section 3 of the analyze handler, entered when competitor_text is truthy
GapAnalysis(m, comp, content) ==
    LET r_comp == extract_keywords(m, comp, TopNGap)
        r_my == extract_keywords(m, content, TopNGap)
        comp_kws == Phrases(r_comp.kws)
    IN  IF ~r_comp.ok
        THEN [raised |-> TRUE, calls |-> ExtractorCalls("competitor_text", comp), gap |-> NoGap]
        ELSE IF ~r_my.ok
        THEN [raised |-> TRUE,
              calls |-> ExtractorCalls("competitor_text", comp) \o ExtractorCalls("my_content_final", content),
              gap |-> NoGap]
        ELSE [raised |-> FALSE,
              calls |-> ExtractorCalls("competitor_text", comp) \o ExtractorCalls("my_content_final", content),
              gap |-> [present |-> TRUE, comp_kws |-> comp_kws,
                       missing_kws |-> Missing(comp_kws, content),
                       shared |-> Shared(comp_kws, content)]]

\* the analyze handler, for the topic and content of the widgets, the stored
\* competitor text and the loaded model
RunAudit(topic, content, comp, m) ==
    LET base == [Rendered("analyze", "none") EXCEPT
                    !.topic = topic, !.content = content, !.comp = comp]
        valid == Validate(topic, content)
        score == similarity(m, encode(topic), encode(content))
        scored == [base EXCEPT
                    !.calls = << <<"encode", "target_keyword">>,
                                 <<"encode", "my_content_final">>,
                                 <<"similarity", "emb_kw, emb_my">> >>,
                    !.scored = TRUE, !.score = score]
        banded == [scored EXCEPT !.band = Band(score)]
        g == GapAnalysis(m, comp, content)
    IN  IF valid # "valid" THEN [base EXCEPT !.outcome = valid, !.notice = "warning"]
        ELSE IF ~ProgressAccepts(score)
        THEN [scored EXCEPT !.outcome = "exception"]
        ELSE IF comp = <<>>
        THEN [banded EXCEPT !.outcome = "report", !.notice = "tip"]
        ELSE IF g.raised
        THEN [banded EXCEPT !.outcome = "exception", !.calls = @ \o g.calls]
        ELSE [banded EXCEPT !.outcome = "report", !.calls = @ \o g.calls,
                            !.gap = g.gap]

----------------------------------------------------------------------------
(* Inputs *)

\* the target keyword field
Topics == {<<>>, <<"a">>}

\* the URL fields
Urls == {<<>>, <<"u">>}

\* the text elements a fetched page can hold
Elements ==
    {<<" ">> \o Pad(<<"a", " ", "B", " ", "a">>, MinElemLen) \o <<" ">>,
     Pad(<<"a", " ", "B", " ", "a">>, MinElemLen + 1),
     Repeat("-", MinElemLen + 1),
     Pad(<<"#">>, MinElemLen + 1)}

\* no request is made for an empty URL field
NoRequest == [status |-> "none", elems |-> <<>>]

\* what requests.get and raise_for_status can give
Responses ==
    {[status |-> "error", elems |-> <<>>]}
    \cup {[status |-> "ok", elems |-> es] : es \in SeqsOf(Elements, 0, MaxElems)}

ResponsesTo(url) == IF url = <<>> THEN {NoRequest} ELSE Responses

\* what the user's content is about
Cores == {<<"A", " ", "b", " ", "a">>, <<"b", " ", "a">>, <<"#">>}

\* what the user can have typed into the content area
EditedContents ==
    {<<>>, <<"a">>, Repeat(" ", MinContentLen),
     <<"a">> \o Repeat(" ", MinContentLen),
     <<" ">> \o Pad(<<"A", " ", "b">>, MinContentLen - 1)}
    \cup {Pad(c, n) : c \in Cores,
                      n \in (MinContentLen - 1)..(MinContentLen + MaxPad - 1)}

\* the keyword typed at the command line
CliTopics == {<<>>, <<"a">>}

\* the lines one can paste at the command line (none is empty)
CliLines ==
    {<<"a">>, <<" ">>,
     Pad(<<"A", " ", "b">>, MinContentLen - 1),
     Pad(<<"A", " ", "b">>, MinContentLen)}

----------------------------------------------------------------------------
(* The Streamlit page *)

\* the session state is initialised, the models are loaded, nothing is pressed
Init ==
    /\ my_text = <<>>
    /\ competitor_text = <<>>
    /\ model \in Models
    /\ page = Rendered("start", "none")
    /\ cli = [pc |-> "prompt", topic |-> <<>>, content |-> <<>>,
              calls |-> <<>>, scored |-> FALSE, score |-> 0, band |-> "none"]

\* the notice a fetch button leaves on the page
FetchNotice(url, fetched) ==
    IF url # <<>> /\ fetched.none THEN "error" ELSE "none"

\* "Fetch Competitor" is pressed
FetchCompetitor(url, response) ==
    LET text == fetch_url_content(response)
    IN  /\ competitor_text' =
              IF url # <<>> /\ Truthy(text) THEN text.text ELSE competitor_text
        /\ page' = Rendered("fetch_competitor", FetchNotice(url, text))
        /\ UNCHANGED <<my_text, model, cli>>

\* "Fetch My Page" is pressed
FetchMyPage(url, response) ==
    LET text == fetch_url_content(response)
    IN  /\ my_text' = IF url # <<>> /\ Truthy(text) THEN text.text ELSE my_text
        /\ page' = Rendered("fetch_my_page", FetchNotice(url, text))
        /\ UNCHANGED <<competitor_text, model, cli>>

\* the analyze handler, keeping the analysed content in the session state
AnalyzeStoring(topic, content) ==
    /\ page' = RunAudit(topic, content, competitor_text, model)
    /\ my_text' = content
    /\ UNCHANGED <<competitor_text, model, cli>>

\* "Analyze Semantic Gap" is pressed
Analyze(topic, content) ==
    /\ page' = RunAudit(topic, content, competitor_text, model)
    /\ UNCHANGED <<my_text, competitor_text, model, cli>>

Next ==
    \/ \E url \in Urls : \E response \in ResponsesTo(url) : FetchCompetitor(url, response)
    \/ \E url \in Urls : \E response \in ResponsesTo(url) : FetchMyPage(url, response)
    \/ \E topic \in Topics, content \in EditedContents \cup {my_text} :
          Analyze(topic, content)

Spec == Init /\ [][Next]_vars

\* the page when the keyphrase model can process every text it is given
WellFormedResponses ==
    {r \in Responses : \A i \in 1..Len(r.elems) : ~Malformed(r.elems[i])}

WellFormedResponsesTo(url) ==
    IF url = <<>> THEN {NoRequest} ELSE WellFormedResponses

WellFormedContents == {c \in EditedContents : ~Malformed(c)}

NextReliable ==
    \/ \E url \in Urls : \E response \in WellFormedResponsesTo(url) :
          FetchCompetitor(url, response)
    \/ \E url \in Urls : \E response \in WellFormedResponsesTo(url) :
          FetchMyPage(url, response)
    \/ \E topic \in Topics, content \in WellFormedContents \cup {my_text} :
          Analyze(topic, content)

SpecReliable == Init /\ [][NextReliable]_vars

----------------------------------------------------------------------------
(* The command-line checker *)

\* one iteration of the loop of main()
CliIteration(target_keyword, lines) ==
    LET content_text == join(<<"\n">>, lines)
        score == similarity(model, encode(target_keyword), encode(content_text))
        read == [cli EXCEPT !.topic = target_keyword, !.calls = <<>>,
                            !.scored = FALSE, !.score = 0, !.band = "none"]
    IN  /\ cli.pc = "prompt"
        /\ cli' =
              IF target_keyword = <<>>
              THEN [read EXCEPT !.pc = "exited", !.content = <<>>]
              ELSE IF content_text = <<>>
              THEN [read EXCEPT !.content = content_text]
              ELSE [read EXCEPT
                      !.content = content_text,
                      !.calls = << <<"encode", "target_keyword">>,
                                   <<"encode", "content_text">>,
                                   <<"similarity", "keyword_emb, content_emb">> >>,
                      !.scored = TRUE, !.score = score, !.band = Band(score)]
        /\ UNCHANGED <<my_text, competitor_text, model, page>>

NextCli ==
    \E target_keyword \in CliTopics, lines \in SeqsOf(CliLines, 0, MaxLines) :
        CliIteration(target_keyword, lines)

SpecCli == Init /\ [][NextCli]_vars

----------------------------------------------------------------------------
(* Vocabulary of the properties *)

Range(s) == {s[i] : i \in 1..Len(s)}

\* the number of entries of s equal to x
Count(s, x) == Cardinality({i \in 1..Len(s) : s[i] = x})

\* the entries of s at the positions in I, in the order of s
RECURSIVE Pick(_, _)
Pick(s, I) ==
    IF s = <<>> THEN <<>>
    ELSE LET rest == Pick(Tail(s), {i - 1 : i \in I \ {1}})
         IN  IF 1 \in I THEN <<Head(s)>> \o rest ELSE rest

\* the positions of the keyphrases that occur in the text, case-insensitively
Covered(kws, text) == {i \in 1..Len(kws) : In(lower(kws[i]), lower(text))}

\* the audit's inputs pass the validation the specification describes
ValidInputs(topic, content) ==
    topic # <<>> /\ content # <<>> /\ Len(strip(content)) >= MinContentLen

\* the run of the page was an audit
IsAudit == page.run = "analyze"

\* the invocations of the keyphrase extractor during the run
Extractions == SelectSeq(page.calls, LAMBDA c : c[1] = "extract_keywords")

\* the invocations of the embedding provider during the run
Scorings == SelectSeq(page.calls, LAMBDA c : c[1] # "extract_keywords")

\* the band the specification gives a score
SpecBand(score) ==
    CASE score > 6000 -> "Strong"
      [] score > 4000 /\ score <= 6000 -> "Moderate"
      [] score <= 4000 -> "Low"

----------------------------------------------------------------------------
(* C1: in every gap report, each competitor keyphrase is in exactly one of *)
(* missing and shared: the two cover comp_kws, have no phrase in common,   *)
(* and their lengths add up to the length of comp_kws (repeated and        *)
(* overlapping phrases included).                                          *)
C1_Partition ==
    page.gap.present =>
        LET k == page.gap.comp_kws
            mi == page.gap.missing_kws
            sh == page.gap.shared
        IN  /\ Range(mi) \cup Range(sh) = Range(k)
            /\ Range(mi) \cap Range(sh) = {}
            /\ Len(mi) + Len(sh) = Len(k)
            /\ \A x \in Range(k) : Count(mi, x) + Count(sh, x) = Count(k, x)

\* a report with a repeated phrase and overlapping phrases, some missing and
\* some shared
C1_Witness ==
    /\ page.gap.present
    /\ page.gap.missing_kws # <<>>
    /\ page.gap.shared # <<>>
    /\ \E i, j \in 1..Len(page.gap.comp_kws) :
          /\ i # j
          /\ page.gap.comp_kws[i] = page.gap.comp_kws[j]
    /\ \E i, j \in 1..Len(page.gap.comp_kws) :
          /\ page.gap.comp_kws[i] # page.gap.comp_kws[j]
          /\ In(page.gap.comp_kws[i], page.gap.comp_kws[j])

(* C2: a competitor keyphrase is shared iff its lower-case form is a       *)
(* substring of the lower-cased user document, and missing otherwise; both *)
(* outputs keep the competitor's ranking order, nothing re-sorted or       *)
(* dropped; if every keyphrase is covered, missing is empty.               *)
C2_Classification ==
    page.gap.present =>
        LET k == page.gap.comp_kws
            covered == Covered(k, page.content)
        IN  /\ page.gap.shared = Pick(k, covered)
            /\ page.gap.missing_kws = Pick(k, (1..Len(k)) \ covered)
            /\ (covered = 1..Len(k)) => page.gap.missing_kws = <<>>

\* a report where a phrase is shared only because of the case folding, and
\* another one is missing
C2_Witness ==
    /\ page.gap.present
    /\ page.gap.missing_kws # <<>>
    /\ \E x \in Range(page.gap.shared) : ~In(x, page.content)

\* a report where the document covers every competitor keyphrase
C2_AllCoveredWitness ==
    /\ page.gap.present
    /\ page.gap.comp_kws # <<>>
    /\ page.gap.missing_kws = <<>>

(* C3: an audit that computed a score in [-1, 1] shows exactly one band:   *)
(* Strong iff score > 0.60, Moderate iff 0.40 < score <= 0.60, Low iff     *)
(* score <= 0.40; on the page and in the command-line checker.             *)
C3_Banding ==
    /\ (IsAudit /\ page.scored) => page.band = SpecBand(page.score)
    /\ cli.scored => cli.band = SpecBand(cli.score)

\* the part of C3 that holds: the band of every score the page's progress
\* bar accepts, and of every score of the command-line checker
C3_BandingOfShownScores ==
    /\ (IsAudit /\ page.scored /\ page.score >= 0) => page.band = SpecBand(page.score)
    /\ cli.scored => cli.band = SpecBand(cli.score)

(* C4: an audit with an empty topic, or with a user document that is empty *)
(* or shorter than 50 characters once stripped, ends as invalid input that *)
(* names the field (the topic first) and invokes neither provider.         *)
C4_InvalidInput ==
    (IsAudit /\ ~ValidInputs(page.topic, page.content)) =>
        /\ page.outcome =
              IF page.topic = <<>> THEN "invalid_keyword" ELSE "invalid_content"
        /\ page.calls = <<>>
        /\ ~page.scored
        /\ ~page.gap.present

\* a document of 50 characters or more that is too short once stripped
C4_Witness ==
    /\ IsAudit
    /\ page.topic # <<>>
    /\ Len(page.content) >= MinContentLen
    /\ Len(strip(page.content)) < MinContentLen
    /\ page.outcome = "invalid_content"

(* C5: every audit that passes validation invokes the scorer, before any   *)
(* gap analysis; the gap analyzer is invoked iff the stored competitor     *)
(* text is non-empty; without competitor text nothing is extracted and no  *)
(* gap report exists; with it, a gap report exists even if missing is      *)
(* empty.                                                                  *)
C5_Orchestration ==
    (IsAudit /\ ValidInputs(page.topic, page.content)) =>
        /\ Len(Scorings) = 3
        /\ SubSeq(page.calls, 1, 3) = Scorings
        /\ (Extractions # <<>>) <=> (page.comp # <<>>)
        /\ (page.comp = <<>>) => (Extractions = <<>> /\ ~page.gap.present)
        /\ (page.comp # <<>>) => page.gap.present

(* C6: during the gap computation the keyphrase extractor is invoked only  *)
(* on the competitor document.                                             *)
C6_CompetitorOnly ==
    IsAudit => \A i \in 1..Len(Extractions) : Extractions[i][2] = "competitor_text"

(* C6, amended: the extractor is invoked on the competitor document and    *)
(* then, unless that call raised, on the user document as well; the phrases*)
(* that are classified are the competitor's, and the user document's       *)
(* keyphrases play no part.                                                *)
C6_BothExtracted ==
    IsAudit =>
        /\ Extractions \in
              {<<>>,
               << <<"extract_keywords", "competitor_text">> >>,
               << <<"extract_keywords", "competitor_text">>,
                  <<"extract_keywords", "my_content_final">> >>}
        /\ (Len(Extractions) = 1) => ~KeyBERT(model, page.comp, TopNGap).ok
        /\ page.gap.present =>
              /\ Len(Extractions) = 2
              /\ page.gap.comp_kws = Phrases(KeyBERT(model, page.comp, TopNGap).kws)

\* a gap report after both extractions
C6_Witness ==
    /\ page.gap.present
    /\ Len(Extractions) = 2
    /\ page.gap.comp_kws # <<>>

(* C7: when the extractor call fails during gap analysis, the keyphrase    *)
(* sequence is empty and the audit still completes, reporting zero-length  *)
(* missing and shared.                                                     *)
C7_FailureDegrades ==
    (/\ IsAudit
     /\ Extractions # <<>>
     /\ \/ ~KeyBERT(model, page.comp, TopNGap).ok
        \/ ~KeyBERT(model, page.content, TopNGap).ok) =>
        /\ page.outcome = "report"
        /\ page.gap.present
        /\ page.gap.missing_kws = <<>>
        /\ page.gap.shared = <<>>

(* C7, amended: when the extractor finds no keyphrase in the competitor    *)
(* text, the audit completes and reports zero-length missing and shared;   *)
(* an extractor call that raises is not caught: the audit is aborted and   *)
(* has no gap report.                                                      *)
C7_EmptyOrAbort ==
    (IsAudit /\ Extractions # <<>>) =>
        LET r_comp == KeyBERT(model, page.comp, TopNGap)
            r_my == KeyBERT(model, page.content, TopNGap)
        IN  /\ (r_comp.ok /\ r_my.ok /\ r_comp.kws = <<>>) =>
                  /\ page.outcome = "report"
                  /\ page.gap.present
                  /\ page.gap.comp_kws = <<>>
                  /\ page.gap.missing_kws = <<>>
                  /\ page.gap.shared = <<>>
            /\ (~r_comp.ok \/ ~r_my.ok) =>
                  /\ page.outcome = "exception"
                  /\ ~page.gap.present

\* a completed audit of a competitor text without any keyphrase
C7_Witness ==
    /\ IsAudit
    /\ page.comp # <<>>
    /\ page.outcome = "report"
    /\ page.gap.present
    /\ page.gap.comp_kws = <<>>

\* an audit the raising extractor aborted
C7_AbortWitness ==
    /\ IsAudit
    /\ Extractions # <<>>
    /\ page.outcome = "exception"

(* C8: an audit leaves the stored user text and competitor text unchanged, *)
(* and an audit that follows an audit with the same topic and user content *)
(* gives the same outcome, score, band and gap report.                     *)
C8_Idempotent ==
    [][page'.run = "analyze" =>
          /\ my_text' = my_text
          /\ competitor_text' = competitor_text
          /\ (/\ page.run = "analyze"
              /\ page'.topic = page.topic
              /\ page'.content = page.content) =>
                 /\ page'.outcome = page.outcome
                 /\ page'.scored = page.scored
                 /\ page'.score = page.score
                 /\ page'.band = page.band
                 /\ page'.gap = page.gap]_vars

\* an audit with a gap report has run and both stored texts are as it read them
C8_Witness ==
    /\ IsAudit
    /\ page.outcome = "report"
    /\ page.gap.present
    /\ page.comp = competitor_text
    /\ my_text # <<>>

(* C9: in the command-line loop the embedding provider is invoked, and a   *)
(* score printed, only for a document that is non-empty once stripped and  *)
(* at least 50 characters long; an empty topic ends the loop.              *)
C9_CliPrecondition ==
    /\ (cli.scored \/ cli.calls # <<>>) =>
          /\ strip(cli.content) # <<>>
          /\ Len(cli.content) >= MinContentLen
    /\ (cli.pc = "exited") => (cli.topic = <<>> /\ ~cli.scored)

(* C10: a fetch that fails or returns empty text does not abort the page   *)
(* and leaves both stored texts as they were; a successful fetch replaces  *)
(* only its own slot; the competitor text, once non-empty, stays non-empty;*)
(* and every valid audit after that includes a gap report computed from    *)
(* the stored competitor text.                                             *)
C10_FetchAndAudit ==
    [][/\ (page'.run \in {"fetch_competitor", "fetch_my_page"}) =>
              page'.outcome = "rendered"
       /\ (page'.notice = "error") =>
              (my_text' = my_text /\ competitor_text' = competitor_text)
       /\ (page'.run = "fetch_competitor") => my_text' = my_text
       /\ (page'.run = "fetch_my_page") => competitor_text' = competitor_text
       /\ (competitor_text # <<>>) => competitor_text' # <<>>
       /\ (my_text # <<>>) => my_text' # <<>>
       /\ (/\ page'.run = "analyze"
           /\ ValidInputs(page'.topic, page'.content)
           /\ competitor_text # <<>>) =>
              /\ page'.comp = competitor_text
              /\ page'.gap.present
              /\ page'.gap.comp_kws =
                    Phrases(KeyBERT(model, competitor_text, TopNGap).kws)]_vars

====
